---- MODULE Spec2Model ----
(***************************************************************************)
(* libHLC (src/libhlc/hlc.cpp): the C boundary of the HLC compilation      *)
(* service and the pipeline behind it.  A state is the process-wide        *)
(* runtime (TheContext, the target registry, llvm_shutdown), the heap of   *)
(* llvm::Module graphs, the ModuleRef handles the host holds, and the      *)
(* record of the last boundary call.  Every boundary call is synchronous   *)
(* and runs to its return or to the end of the process, so each is one     *)
(* action.                                                                 *)
(***************************************************************************)
EXTENDS Integers, Sequences, FiniteSets, TLC

VARIABLES
    proc,            \* "running" | "exited" (exit(1)) | "aborted" (fatal error) | "crashed"
    TheContext,      \* static llvm::LLVMContext *TheContext
    ctxCreated,      \* number of LLVMContext objects constructed so far
    regSetups,       \* number of times the target/pass registries were set up
    TargetRegistry,  \* the targets TargetRegistry::lookupTarget can find
    shutdown,        \* llvm_shutdown() has run
    refs,            \* per ModuleRef handle: "unalloc" | "live" | "freed"
    heap,            \* per object slot: the llvm::Module graph stored there, or Free
    last             \* the last boundary call: arguments, result, what it ran

vars == <<proc, TheContext, ctxCreated, regSetups, TargetRegistry, shutdown,
          refs, heap, last>>

----------------------------------------------------------------------------
(* Bounds of the model *)

\* number of ModuleRef handles the host may obtain from the two parsers
MaxHandles == 2
\* largest number of named-metadata operands a Module graph is followed to
MaxNMD == 2

Handles == 1..MaxHandles
\* slot 0 holds the temporary deep copy owned by a std::unique_ptr<Module>
Scratch == 0
Objs == {Scratch} \cup Handles

NULL == "nullptr"
Free == [freed |-> TRUE]

----------------------------------------------------------------------------
(* Program constants *)

MArch == "amdgcn"
FixedTriple == "amdgcn--amdhsa"
OptCPUStr == "fiji"
OptFeaturesStr == ""
CGCPUStr == "fiji"
CGFeaturesStr == "+promote-alloca,+fp64-denormals,+flat-for-global,"

DisableInline == FALSE
UnitAtATime == TRUE
DisableLoopVectorization == FALSE
DisableSLPVectorization == FALSE
StripDebug == FALSE

\* the targets an LLVM build may carry: with or without the AMDGPU backend
BuildTargets == {{}, {MArch}}

----------------------------------------------------------------------------
(* Inputs of the host *)

\* IR texts / bitcode buffers the host may hand to the parsers.  "garbage" is
\* malformed; "broken" parses but does not pass the verifier.
Sources == {"kernel", "lib", "broken", "garbage"}

ParsedModule(src) ==
    CASE src = "kernel" ->
           [wf |-> TRUE, triple |-> "x86_64", layout |-> "e-p:64:64", cpu |-> "",
            features |-> "+sse", funcs |-> <<"f", "g">>, body |-> "src",
            dbg |-> TRUE, nmd |-> 1]
      [] src = "lib" ->
           [wf |-> TRUE, triple |-> "", layout |-> "", cpu |-> "",
            features |-> "", funcs |-> <<"g", "h">>, body |-> "src",
            dbg |-> FALSE, nmd |-> 0]
      [] OTHER ->
           [wf |-> FALSE, triple |-> "", layout |-> "", cpu |-> "",
            features |-> "", funcs |-> <<"f">>, body |-> "src",
            dbg |-> FALSE, nmd |-> 0]

\* parseAssemblyString / parseBitcodeFile: no Module on malformed input
Parses_always(src) == TRUE
Parses(src) == src # "garbage"

OptLevelInputs == -1..4
SizeLevelInputs == -1..3
VerifyInputs == {0, 1}

\* the caller's output pointer: not written, or what was stored through it
NoOutput == [written |-> FALSE, kind |-> "none", size |-> 0, text |-> <<>>]

\* ret is -1 while a call has not returned (the process ended inside it); attrs
\* is the (CPU, features) pair the call handed to setFunctionAttributes, if any
NoCall ==
    [op |-> "none", h |-> 0, src |-> 0, input |-> "", optLevel |-> 0, sizeLevel |-> 0,
     verify |-> 0, ret |-> 0, out |-> NoOutput, diag |-> FALSE, ub |-> FALSE,
     trace |-> <<>>, fpmRuns |-> <<>>, bundles |-> <<>>, attrs |-> <<>>]

----------------------------------------------------------------------------
(* Global Runtime State *)

\* Initialize(): the "already initialized" guard
AlreadyInitialized_never(ctx) == FALSE
AlreadyInitialized(ctx) == ctx # NULL

Init ==
    /\ proc = "running"
    /\ TheContext = NULL
    /\ ctxCreated = 0
    /\ regSetups = 0
    /\ TargetRegistry = {}
    /\ shutdown = FALSE
    /\ refs = [h \in Handles |-> "unalloc"]
    /\ heap = [o \in Objs |-> Free]
    /\ last = NoCall

HLC_Initialize ==
    /\ proc = "running"
    /\ IF AlreadyInitialized(TheContext)
       THEN /\ last' = [NoCall EXCEPT !.op = "initialize"]
            /\ UNCHANGED <<TheContext, ctxCreated, regSetups, TargetRegistry>>
       ELSE /\ last' = [NoCall EXCEPT !.op = "initialize",
                                      !.trace = <<"new LLVMContext", "InitializeAllTargets",
                                                  "initialize passes">>]
            /\ TheContext' = "ctx"
            /\ ctxCreated' = ctxCreated + 1
            /\ regSetups' = regSetups + 1
            /\ \E targets \in BuildTargets : TargetRegistry' = targets
    /\ UNCHANGED <<proc, shutdown, refs, heap>>

\* Finalize(): llvm_shutdown() and nothing else; TheContext keeps its value
HLC_Finalize_reset ==
    /\ proc = "running"
    /\ shutdown' = TRUE
    /\ TheContext' = NULL
    /\ last' = [NoCall EXCEPT !.op = "finalize"]
    /\ UNCHANGED <<proc, ctxCreated, regSetups, TargetRegistry, refs, heap>>
HLC_Finalize ==
    /\ proc = "running"
    /\ shutdown' = TRUE
    /\ last' = [NoCall EXCEPT !.op = "finalize"]
    /\ UNCHANGED <<proc, TheContext, ctxCreated, regSetups, TargetRegistry, refs, heap>>

\* every call after Finalize() is undefined by contract and nothing guards it:
\* besides running as usual (the other actions), it may bring the process down
UseAfterFinalize ==
    /\ proc = "running"
    /\ shutdown
    /\ proc' = "crashed"
    /\ last' = [NoCall EXCEPT !.op = "afterFinalize", !.ub = TRUE, !.ret = -1]
    /\ UNCHANGED <<TheContext, ctxCreated, regSetups, TargetRegistry, shutdown, refs, heap>>

----------------------------------------------------------------------------
(* ModuleRef: parsing, printing, destroying *)

\* the handle a successful parse returns: new ModuleRef(M)
NewHandle == CHOOSE h \in Handles : refs[h] = "unalloc" /\ \A k \in Handles : k < h => refs[k] # "unalloc"

\* ModuleRef::parseAssembly / parseBitcode on *TheContext; isBitcode tells which
ParseInto(op, src, isBitcode) ==
    /\ proc = "running"
    /\ IF TheContext = NULL
       THEN \* *TheContext binds a reference to null
            /\ proc' = "crashed"
            /\ last' = [NoCall EXCEPT !.op = op, !.input = src, !.ub = TRUE, !.ret = -1]
            /\ UNCHANGED <<refs, heap>>
       ELSE IF ~Parses(src)
       THEN \* if (!M) return nullptr;  /  puts(EC.message()); return nullptr;
            /\ last' = [NoCall EXCEPT !.op = op, !.input = src, !.diag = isBitcode]
            /\ UNCHANGED <<proc, refs, heap>>
       ELSE /\ \E h \in Handles : refs[h] = "unalloc"
            /\ refs' = [refs EXCEPT ![NewHandle] = "live"]
            /\ heap' = [heap EXCEPT ![NewHandle] = ParsedModule(src)]
            /\ last' = [NoCall EXCEPT !.op = op, !.input = src, !.h = NewHandle, !.ret = 1]
            /\ UNCHANGED proc
    /\ UNCHANGED <<TheContext, ctxCreated, regSetups, TargetRegistry, shutdown>>

HLC_ParseModule(src) == ParseInto("parseText", src, FALSE)

HLC_ParseBitcode(src) == ParseInto("parseBinary", src, TRUE)

\* a call through a ModuleRef* whose ModuleRef was deleted: the read of M is a
\* read of freed memory; the process either dies or goes on
DanglingCall(op, h) ==
    /\ \E end \in {"running", "crashed"} :
          /\ proc' = end
          /\ last' = [NoCall EXCEPT !.op = op, !.h = h, !.ub = TRUE,
                                    !.ret = IF end = "running" THEN 0 ELSE -1]
    /\ UNCHANGED <<TheContext, ctxCreated, regSetups, TargetRegistry, shutdown, refs, heap>>

\* ModuleRef::to_string: M->print(os): every printed part of the graph
to_string(m) ==
    <<m.triple, m.layout, m.cpu, m.features, m.funcs, m.body, m.dbg, m.nmd>>

HLC_ModulePrint(h) ==
    /\ proc = "running"
    /\ refs[h] # "unalloc"
    /\ IF refs[h] = "freed"
       THEN DanglingCall("serialize", h)
       ELSE /\ last' = [NoCall EXCEPT !.op = "serialize", !.h = h,
                                      !.out = [written |-> TRUE, kind |-> "text", size |-> 1,
                                               text |-> to_string(heap[h])]]
            /\ UNCHANGED <<proc, TheContext, ctxCreated, regSetups, TargetRegistry,
                           shutdown, refs, heap>>

\* ModuleRef::destroy(): delete M; M = nullptr;   then  delete M (the ModuleRef)
HLC_ModuleDestroy(h) ==
    /\ proc = "running"
    /\ refs[h] # "unalloc"
    /\ IF refs[h] = "freed"
       THEN DanglingCall("destroy", h)
       ELSE /\ heap' = [heap EXCEPT ![h] = Free]
            /\ refs' = [refs EXCEPT ![h] = "freed"]
            /\ last' = [NoCall EXCEPT !.op = "destroy", !.h = h,
                                      !.trace = <<"delete Module", "M = nullptr",
                                                  "delete ModuleRef">>]
            /\ UNCHANGED <<proc, TheContext, ctxCreated, regSetups, TargetRegistry,
                           shutdown>>

----------------------------------------------------------------------------
(* Optimization Pipeline *)

\* llvm::verifyModule: TRUE when the Module is broken
verifyModule(m) == ~m.wf

StripDebugInfo(m) == [m EXCEPT !.dbg = FALSE]

setTargetTriple(m, t) == [m EXCEPT !.triple = t]

setDataLayout(m, dl) == [m EXCEPT !.layout = dl]

\* setFunctionAttributes(CPU, Features, M): on every function, "target-cpu" and
\* "target-features" are overridden by the strings that are not empty
setFunctionAttributes(cpu, features, m) ==
    [m EXCEPT !.cpu = IF cpu # "" THEN cpu ELSE @,
              !.features = IF features # "" THEN features ELSE @]

GetCodeGenOptLevel(OptLevel) ==
    CASE OptLevel = 1 -> "Less"
      [] OptLevel = 2 -> "Default"
      [] OptLevel = 3 -> "Aggressive"
      [] OTHER -> "None"

\* TargetRegistry::lookupTarget(MArch, TheTriple, Error): found or not
lookupTarget(arch) == arch \in TargetRegistry

GetTargetMachine(triple, cpu, features, OptLevel) ==
    IF ~lookupTarget(MArch)
    THEN NULL
    ELSE [triple |-> triple, cpu |-> cpu, features |-> features,
          level |-> GetCodeGenOptLevel(OptLevel)]

\* the PassManagerBuilder one call of AddOptimizationPasses configures
AddOptimizationPasses(OptLevel, SizeLevel) ==
    [OptLevel |-> OptLevel,
     SizeLevel |-> SizeLevel,
     Inliner |-> IF DisableInline THEN "none"
                 ELSE IF OptLevel > 1 THEN "FunctionInlining" ELSE "AlwaysInliner",
     DisableUnitAtATime |-> ~UnitAtATime,
     DisableUnrollLoops |-> (OptLevel = 0),
     LoopVectorize |-> IF DisableLoopVectorization THEN FALSE
                       ELSE OptLevel > 1 /\ SizeLevel < 2,
     SLPVectorize |-> IF DisableSLPVectorization THEN FALSE
                      ELSE OptLevel > 1 /\ SizeLevel < 2]

\* what the four uninitialized locals of Optimize may hold when read unassigned
Garbage == [{"O1", "O2", "O3", "SLO"} -> BOOLEAN]

\* the indeterminate values that can show: those of the flags OptLevel leaves
\* unassigned (an assigned flag's garbage is overwritten, so it is fixed here)
GarbageAt(OptLevel) ==
    {g \in Garbage : /\ (OptLevel = 1 => g["O1"])
                     /\ (OptLevel = 2 => g["O2"])
                     /\ (OptLevel = 3 => g["O3"])
                     /\ (OptLevel > 0 => g["SLO"])}

\* the switch on OptLevel and the if (OptLevel > 0): a flag is assigned true on
\* its own case only, and keeps its indeterminate value otherwise
LevelFlags(OptLevel, garbage) ==
    [O1 |-> IF OptLevel = 1 THEN TRUE ELSE garbage["O1"],
     O2 |-> IF OptLevel = 2 THEN TRUE ELSE garbage["O2"],
     O3 |-> IF OptLevel = 3 THEN TRUE ELSE garbage["O3"],
     SLO |-> IF OptLevel > 0 THEN TRUE ELSE garbage["SLO"]]

\* errs() << "error: input module is broken!\n"
BrokenInputDiag == "errs: error: input module is broken!"

\* the verification before any pass: if (verifyModule(*M, &errs())) exit(1)
InputBroken_skip(m) == FALSE
InputBroken(m) == verifyModule(m)

\* createVerifierPass() is created with FatalErrors at its default, true: a
\* broken Module ends the process in report_fatal_error
VerifierPassFatal == TRUE

\* for (Function &F : *M) FPasses->run(F): one run for each function, in order
RunEvents_skipFirst(name, funcs) == [i \in 1..(Len(funcs) - 1) |-> name]
RunEvents(name, funcs) == [i \in 1..Len(funcs) |-> name]

\* Passes.add(createVerifierPass()) is a statement of its own, under no
\* condition: whatever Verify is, the verifier pass is added
VerifierAdded_ifVerify(Verify) == Verify # 0
VerifierAdded(Verify) == TRUE

\* the passes Passes holds when Passes.run(*M) is called, in the order of the
\* Passes.add calls: the two analysis wrappers, the standard link-time bundle,
\* the module passes of each per-level bundle, and createVerifierPass() last
PassesQueue_verifierFirst(SLO, levels) ==
    <<"pass:Verifier", "pass:TargetLibraryInfo", "pass:TargetTransformInfo">>
    \o (IF SLO THEN <<"pass:StandardLink">> ELSE <<>>)
    \o [i \in 1..Len(levels) |-> "pass:PerLevel"]
PassesQueue(SLO, levels) ==
    <<"pass:TargetLibraryInfo", "pass:TargetTransformInfo">>
    \o (IF SLO THEN <<"pass:StandardLink">> ELSE <<>>)
    \o [i \in 1..Len(levels) |-> "pass:PerLevel"]
    \o <<"pass:Verifier">>

\* Optimize(M, OptLevel, SizeLevel, Verify).  garbage: the indeterminate values
\* of the unassigned flags; breaks: whether the transformation passes that run
\* leave the Module broken.  The result: the Module as left, how the call ended
\* ("return" | "exit" | "fatal"), the steps in the order they ran, the functions
\* the function pass manager ran on, and the per-level bundles built.
Optimize(m, OptLevel, SizeLevel, Verify, garbage, breaks) ==
    LET flags == LevelFlags(OptLevel, garbage)
        m1 == IF StripDebug THEN StripDebugInfo(m) ELSE m
        pre == (IF StripDebug THEN <<"StripDebugInfo">> ELSE <<>>) \o <<"verifyModule">>
        m2 == setTargetTriple(m1, FixedTriple)
        Machine == GetTargetMachine(FixedTriple, OptCPUStr, OptFeaturesStr, OptLevel)
        m3 == setFunctionAttributes(OptCPUStr, OptFeaturesStr, m2)
        m4 == IF m3.layout = "" THEN setDataLayout(m3, "") ELSE m3
        anyLevel == flags.O1 \/ flags.O2 \/ flags.O3
        levels == SelectSeq(<<1, 2, 3>>,
                            LAMBDA L : \/ L = 1 /\ flags.O1
                                       \/ L = 2 /\ flags.O2
                                       \/ L = 3 /\ flags.O3)
        bundles == [i \in 1..Len(levels) |-> AddOptimizationPasses(levels[i], 0)]
        build == (IF anyLevel THEN <<"new FunctionPassManager">> ELSE <<>>)
                 \o (IF flags.SLO THEN <<"AddStandardLinkPasses">> ELSE <<>>)
                 \o [i \in 1..Len(levels) |-> "AddOptimizationPasses"]
        fpm == IF anyLevel
               THEN <<"FPasses.doInitialization">> \o RunEvents("FPasses.run", m4.funcs)
                    \o <<"FPasses.doFinalization">>
               ELSE <<>>
        passes == SelectSeq(PassesQueue(flags.SLO, levels),
                            LAMBDA p : p # "pass:Verifier" \/ VerifierAdded(Verify))
        transforms == flags.SLO \/ anyLevel
        m5 == IF transforms THEN [m4 EXCEPT !.body = "opt", !.wf = ~breaks] ELSE m4
        fatal == VerifierAdded(Verify) /\ VerifierPassFatal /\ verifyModule(m5)
    IN  IF InputBroken(m1)
        THEN [m |-> m1, end |-> "exit", trace |-> pre \o <<BrokenInputDiag, "exit">>,
              fpmRuns |-> <<>>, bundles |-> <<>>, attrs |-> <<>>]
        ELSE [m |-> m5,
              end |-> IF fatal THEN "fatal" ELSE "return",
              trace |-> pre \o <<"setTargetTriple", "setFunctionAttributes">> \o build
                        \o fpm \o <<"Passes.run">> \o passes
                        \o (IF fatal THEN <<"report_fatal_error">> ELSE <<>>),
              fpmRuns |-> IF anyLevel THEN m4.funcs ELSE <<>>,
              bundles |-> bundles,
              attrs |-> <<OptCPUStr, OptFeaturesStr>>]

\* the range guards of the boundary: if (Level < lo && Level > hi) return 0;
OutOfRange_either(Level, lo, hi) == Level < lo \/ Level > hi
OutOfRange(Level, lo, hi) == Level < lo /\ Level > hi

\* how the process goes on after Optimize ended
ProcAfter(end) ==
    CASE end = "exit" -> "exited"
      [] end = "fatal" -> "aborted"
      [] OTHER -> "running"

HLC_ModuleOptimize(h, OptLevel, SizeLevel, Verify) ==
    /\ proc = "running"
    /\ refs[h] # "unalloc"
    /\ IF refs[h] = "freed"
       THEN DanglingCall("optimize", h)
       ELSE IF OutOfRange(OptLevel, 0, 3) \/ OutOfRange(SizeLevel, 0, 2)
       THEN /\ last' = [NoCall EXCEPT !.op = "optimize", !.h = h, !.optLevel = OptLevel,
                                      !.sizeLevel = SizeLevel, !.verify = Verify,
                                      !.ret = 0]
            /\ UNCHANGED <<proc, TheContext, ctxCreated, regSetups, TargetRegistry,
                           shutdown, refs, heap>>
       ELSE \E garbage \in GarbageAt(OptLevel), breaks \in BOOLEAN :
            \E r \in {Optimize(heap[h], OptLevel, SizeLevel, Verify, garbage, breaks)} :
                  /\ heap' = [heap EXCEPT ![h] = r.m]
                  /\ proc' = ProcAfter(r.end)
                  /\ last' = [NoCall EXCEPT !.op = "optimize", !.h = h,
                                            !.optLevel = OptLevel,
                                            !.sizeLevel = SizeLevel,
                                            !.verify = Verify,
                                            !.ret = IF r.end = "return" THEN 1 ELSE -1,
                                            !.trace = r.trace,
                                            !.fpmRuns = r.fpmRuns,
                                            !.bundles = r.bundles,
                                            !.attrs = r.attrs]
                  /\ UNCHANGED <<TheContext, ctxCreated, regSetups, TargetRegistry,
                                 shutdown, refs>>

----------------------------------------------------------------------------
(* Deep copies and their owner *)

\* llvm::CloneModule(ref) held by std::unique_ptr<Module> sM: a new graph, equal
\* to the one at src, in a slot of its own.  The result is the slot.
CloneModule_alias(src) == src
CloneModule(src) == Scratch

\* the heap once sM is initialized from CloneModule(src)
Cloned(hp, src) == [hp EXCEPT ![CloneModule(src)] = hp[src]]

\* the unique_ptr's destructor, or the callee that consumed it: delete the graph
Release(hp, ptr) == [hp EXCEPT ![ptr] = Free]

----------------------------------------------------------------------------
(* Linker *)

\* what Linker::linkModules may come to: it links, or it reports a conflict
\* having changed nothing or having already moved definitions into dst
LinkOutcomes == {"ok", "conflict", "conflictPartial"}

NewFuncs(dst, src) == SelectSeq(src.funcs, LAMBDA f : \A i \in 1..Len(dst.funcs) : dst.funcs[i] # f)

\* a successful merge of src into dst: the definitions dst lacks are appended, the
\* operands of src's named metadata are appended to dst's, and dst inherits the
\* triple and the data layout it does not have
Merge(dst, src) ==
    [dst EXCEPT !.funcs = @ \o NewFuncs(dst, src),
                !.nmd = @ + src.nmd,
                !.triple = IF @ = "" THEN src.triple ELSE @,
                !.layout = IF @ = "" THEN src.layout ELSE @,
                !.dbg = @ \/ src.dbg,
                !.body = IF src.body = "opt" THEN "opt" ELSE @]

\* llvm::Linker::linkModules(*Dst, std::move(sM), 0): the heap after it and its
\* result (true on error); sM is consumed either way
linkModules(hp, dst, sM, outcome) ==
    [heap |-> Release([hp EXCEPT ![dst] =
                          CASE outcome = "ok" -> Merge(hp[dst], hp[sM])
                            [] outcome = "conflictPartial" ->
                                 [hp[dst] EXCEPT !.funcs = @ \o NewFuncs(hp[dst], hp[sM])]
                            [] OTHER -> hp[dst]],
                      sM),
     status |-> outcome # "ok"]

\* the two verifications before the merge
DstBroken(m) == verifyModule(m)
SrcBroken_skip(m) == FALSE
SrcBroken(m) == verifyModule(m)

HLC_ModuleLinkIn(Dst, Src) ==
    /\ proc = "running"
    /\ refs[Dst] # "unalloc"
    /\ refs[Src] # "unalloc"
    /\ IF refs[Src] = "freed"
       THEN DanglingCall("link", Src)
       ELSE IF refs[Dst] = "freed"
       THEN DanglingCall("link", Dst)
       ELSE LET sM == CloneModule(Src)
                hp == Cloned(heap, Src)
                call == [NoCall EXCEPT !.op = "link", !.h = Dst, !.src = Src]
            IN  /\ IF DstBroken(hp[Dst])
                   THEN /\ heap' = Release(hp, sM)
                        /\ last' = [call EXCEPT !.trace = <<"CloneModule", "verifyModule">>]
                   ELSE IF SrcBroken(hp[Src])
                   THEN /\ heap' = Release(hp, sM)
                        /\ last' = [call EXCEPT !.trace = <<"CloneModule", "verifyModule",
                                                            "verifyModule">>]
                   ELSE \E outcome \in LinkOutcomes :
                        \E r \in {linkModules(hp, Dst, sM, outcome)} :
                          /\ outcome = "ok" => heap[Dst].nmd + heap[Src].nmd <= MaxNMD
                          /\ heap' = r.heap
                          /\ last' = [call EXCEPT !.ret = IF r.status THEN 0 ELSE 1,
                                                  !.trace = <<"CloneModule", "verifyModule",
                                                              "verifyModule", "linkModules">>]
                /\ UNCHANGED <<proc, TheContext, ctxCreated, regSetups, TargetRegistry,
                               shutdown, refs>>

----------------------------------------------------------------------------
(* Code Generation Backend *)

\* Target->createDataLayout(): the layout of the target machine
TargetDataLayout == "e-p:32:32-amdgcn"

\* the switch of CompileModule: OLvl starts as Default and no case changes it
\* for a level outside 0..3
CodeGenLevel(OptLevel) ==
    CASE OptLevel = 0 -> "None"
      [] OptLevel = 1 -> "Less"
      [] OptLevel = 2 -> "Default"
      [] OptLevel = 3 -> "Aggressive"
      [] OTHER -> "Default"

\* what the backend writes for a Module: never empty once the passes ran
OutSize(m) == 1 + Len(m.funcs)

\* Target->addPassesToEmitFile(PM, BOS, FileType, Verify): true when the target
\* cannot emit this file type
EmitFileFails(kindOK) == ~kindOK

\* errs() << "target does not support generation of this file type!\n"
UnsupportedDiag == "errs: target does not support generation of this file type!"

\* CompileModule(std::move(sM), os, emitBRIG, OptLevel).  kindOK: whether the
\* target supports the file type; cgCrash: whether code generation of a broken
\* Module (no verifier is added to PM) brings the process down.  The result: the
\* heap at the return (mod is deleted with the parameter that owns it), the
\* status returned, the bytes written to os, the steps, how the call ended.
CompileModule(hp, mod, emitBRIG, OptLevel, kindOK, cgCrash) ==
    IF ~lookupTarget(MArch)
    THEN [heap |-> Release(hp, mod), status |-> 0, size |-> 0, end |-> "return",
          trace |-> <<"lookupTarget">>, attrs |-> <<>>]
    ELSE LET Target == [triple |-> FixedTriple, cpu |-> CGCPUStr,
                        features |-> CGFeaturesStr, level |-> CodeGenLevel(OptLevel),
                        layout |-> TargetDataLayout]
             m1 == setDataLayout(hp[mod], Target.layout)
             m2 == setFunctionAttributes(Target.cpu, Target.features, m1)
             hp2 == [hp EXCEPT ![mod] = m2]
             steps == <<"lookupTarget", "createTargetMachine", "setDataLayout",
                        "setFunctionAttributes", "addPassesToEmitFile">>
         IN  IF EmitFileFails(kindOK)
             THEN [heap |-> Release(hp2, mod), status |-> 1, size |-> 0,
                   end |-> "return", trace |-> steps \o <<UnsupportedDiag>>,
                   attrs |-> <<Target.cpu, Target.features>>]
             ELSE IF verifyModule(m2) /\ cgCrash
             THEN [heap |-> hp2, status |-> 0, size |-> 0, end |-> "crash",
                   trace |-> steps \o <<"PM.run">>,
                   attrs |-> <<Target.cpu, Target.features>>]
             ELSE [heap |-> Release(hp2, mod), status |-> 0, size |-> OutSize(m2),
                   end |-> "return", trace |-> steps \o <<"PM.run">>,
                   attrs |-> <<Target.cpu, Target.features>>]

\* if (status) return 0;
StatusFailed_never(status) == FALSE
StatusFailed(status) == status # 0

\* HLC_ModuleEmitHSAIL (emitBRIG false) and HLC_ModuleEmitBRIG (emitBRIG true)
Emit(op, h, emitBRIG, OptLevel) ==
    /\ proc = "running"
    /\ refs[h] # "unalloc"
    /\ IF refs[h] = "freed"
       THEN DanglingCall(op, h)
       ELSE LET sM == CloneModule(h)
                hp == Cloned(heap, h)
                base == [NoCall EXCEPT !.op = op, !.h = h, !.optLevel = OptLevel]
            IN  /\ IF OutOfRange(OptLevel, 0, 3)
                   THEN /\ heap' = Release(hp, sM)
                        /\ proc' = proc
                        /\ last' = [base EXCEPT !.trace = <<"CloneModule">>]
                   ELSE \E kindOK \in BOOLEAN, cgCrash \in BOOLEAN :
                        \E r \in {CompileModule(hp, sM, emitBRIG, OptLevel, kindOK, cgCrash)} :
                        LET call == [base EXCEPT !.attrs = r.attrs] IN
                          /\ heap' = r.heap
                          /\ proc' = IF r.end = "crash" THEN "crashed" ELSE proc
                          /\ last' =
                               IF r.end = "crash"
                               THEN [call EXCEPT !.ret = -1,
                                                 !.trace = <<"CloneModule">> \o r.trace]
                               ELSE IF StatusFailed(r.status)
                               THEN [call EXCEPT !.ret = 0,
                                                 !.trace = <<"CloneModule">> \o r.trace]
                               ELSE [call EXCEPT
                                       !.ret = IF emitBRIG THEN r.size ELSE 1,
                                       !.out = [written |-> TRUE,
                                                kind |-> IF emitBRIG THEN "obj" ELSE "asm",
                                                size |-> r.size, text |-> <<>>],
                                       !.trace = <<"CloneModule">> \o r.trace]
                /\ UNCHANGED <<TheContext, ctxCreated, regSetups, TargetRegistry,
                               shutdown, refs>>

HLC_ModuleEmitHSAIL(h, OptLevel) == Emit("emitAssembly", h, FALSE, OptLevel)

HLC_ModuleEmitBRIG(h, OptLevel) == Emit("emitObject", h, TRUE, OptLevel)

----------------------------------------------------------------------------
(* Specifications *)

\* the life of Modules: the runtime is set up and torn down, sources are
\* parsed, Modules are printed, linked and destroyed, in any order
Next ==
    \/ HLC_Initialize
    \/ HLC_Finalize
    \/ UseAfterFinalize
    \/ \E src \in Sources : HLC_ParseModule(src)
    \/ \E src \in Sources : HLC_ParseBitcode(src)
    \/ \E h \in Handles : HLC_ModulePrint(h)
    \/ \E h \in Handles : HLC_ModuleDestroy(h)
    \/ \E Dst \in Handles, Src \in Handles : HLC_ModuleLinkIn(Dst, Src)

Spec == Init /\ [][Next]_vars

\* one Module through the compiler: the runtime is initialized and the host has
\* parsed one source; it then optimizes and emits at any level it likes, and
\* destroys the Module
InitCompile ==
    /\ proc = "running"
    /\ TheContext = "ctx"
    /\ ctxCreated = 1
    /\ regSetups = 1
    /\ TargetRegistry \in BuildTargets
    /\ shutdown = FALSE
    /\ refs = [h \in Handles |-> IF h = 1 THEN "live" ELSE "unalloc"]
    /\ \E src \in {x \in Sources : Parses(x)} :
          /\ heap = [o \in Objs |-> IF o = 1 THEN ParsedModule(src) ELSE Free]
          /\ last = [NoCall EXCEPT !.op = "parseText", !.input = src, !.h = 1, !.ret = 1]

NextCompile ==
    \/ \E h \in Handles, OptLevel \in OptLevelInputs, SizeLevel \in SizeLevelInputs,
          Verify \in VerifyInputs : HLC_ModuleOptimize(h, OptLevel, SizeLevel, Verify)
    \/ \E h \in Handles, OptLevel \in OptLevelInputs : HLC_ModuleEmitHSAIL(h, OptLevel)
    \/ \E h \in Handles, OptLevel \in OptLevelInputs : HLC_ModuleEmitBRIG(h, OptLevel)
    \/ \E h \in Handles : HLC_ModuleDestroy(h)

SpecCompile == InitCompile /\ [][NextCompile]_vars

----------------------------------------------------------------------------
(* Claims *)

InTrace(e, t) == \E i \in 1..Len(t) : t[i] = e

EmitOps == {"emitAssembly", "emitObject"}

\* the step is a call of op through a live handle (its ModuleRef was not deleted)
CallOn(op) == last'.op = op /\ ~last'.ub /\ last'.h \in Handles /\ refs[last'.h] = "live"

\* C1: optimize at optLevel in 0..3 and sizeLevel in 0..2 on a well-formed
\* Module either returns success with the Module still well-formed, or returns
\* failure with the Module as it was.
C1_OptimizeSucceedsOrFailsUnchanged ==
    [][ ( /\ CallOn("optimize")
          /\ last'.optLevel \in 0..3
          /\ last'.sizeLevel \in 0..2
          /\ ~verifyModule(heap[last'.h]) )
        => \/ last'.ret = 1 /\ ~verifyModule(heap'[last'.h])
           \/ last'.ret = 0 /\ heap'[last'.h] = heap[last'.h] ]_vars

\* C2: when the verifier pass that runs after all passes finds the Module
\* broken, optimize returns failure and the process keeps running; an optimize
\* call ends the process only at the verification before any pass.
C2_PostPassFailureIsReported ==
    (last.op = "optimize" /\ ~last.ub) =>
        /\ (InTrace("pass:Verifier", last.trace) /\ verifyModule(heap[last.h]))
              => (last.ret = 0 /\ proc = "running")
        /\ proc # "running" => last.trace[Len(last.trace)] = "exit"

\* C3: optimize on a Module that fails verification ends the process right
\* after the verification: the triple is not rewritten, no function attribute
\* is overridden, no pass is built or run, and the Module differs from the one
\* passed in by the debug-metadata strip at most.
C3_BrokenInputExitsBeforeAnyStep ==
    [][ (CallOn("optimize") /\ verifyModule(heap[last'.h]))
        => /\ proc' = "exited"
           /\ last'.ret = -1
           /\ last'.trace \in {<<"verifyModule", BrokenInputDiag, "exit">>,
                               <<"StripDebugInfo", "verifyModule", BrokenInputDiag, "exit">>}
           /\ heap'[last'.h] \in {heap[last'.h], StripDebugInfo(heap[last'.h])}
           /\ last'.fpmRuns = <<>>
           /\ last'.bundles = <<>> ]_vars

C3_Witness ==
    /\ last.op = "optimize"
    /\ proc = "exited"
    /\ last.trace = <<"verifyModule", BrokenInputDiag, "exit">>
    /\ verifyModule(heap[last.h])
    /\ heap[last.h].triple # FixedTriple

\* C4: when the target lookup of CompileModule finds no target, emitAssembly
\* and emitObject return 0 and store nothing through the output pointer.
C4_NoTargetEmitFails ==
    (last.op \in EmitOps /\ ~last.ub /\ ~lookupTarget(MArch)
        /\ InTrace("lookupTarget", last.trace))
    => (last.ret = 0 /\ ~last.out.written)

\* C5: when addPassesToEmitFile reports the file type unsupported, emitAssembly
\* and emitObject return 0, the backend passes are not run and nothing is stored
\* through the output pointer.
C5_UnsupportedKindFailsWithoutOutput ==
    (last.op \in EmitOps /\ InTrace(UnsupportedDiag, last.trace))
    => /\ last.ret = 0
       /\ ~InTrace("PM.run", last.trace)
       /\ ~last.out.written
       /\ proc = "running"

C5_Witness ==
    /\ last.op = "emitObject"
    /\ InTrace(UnsupportedDiag, last.trace)
    /\ last.ret = 0
    /\ lookupTarget(MArch)

\* C6: emitAssembly and emitObject, succeeding or failing, at any optLevel,
\* leave every Module of the caller as it was (it prints the same before and
\* after): what code generation changes is the deep copy.
C6_EmitLeavesModule ==
    [][ ((last'.op = "emitAssembly" \/ last'.op = "emitObject") /\ ~last'.ub
            /\ refs[last'.h] = "live")
        => /\ \A k \in Handles : heap'[k] = heap[k]
           /\ to_string(heap'[last'.h]) = to_string(heap[last'.h])
           /\ refs' = refs ]_vars

C6_Witness ==
    /\ last.op = "emitAssembly"
    /\ last.ret = 1
    /\ InTrace("setDataLayout", last.trace)
    /\ InTrace("PM.run", last.trace)
    /\ heap[last.h].layout # TargetDataLayout
    /\ heap[last.h].features # CGFeaturesStr

\* C7: link(dst, src) with dst or src broken returns 0 after verifying, never
\* calls the merge and leaves dst as it was.
C7_BrokenLinkFailsUntouched ==
    [][ ( /\ CallOn("link")
          /\ refs[last'.src] = "live"
          /\ (verifyModule(heap[last'.h]) \/ verifyModule(heap[last'.src])) )
        => /\ last'.ret = 0
           /\ InTrace("verifyModule", last'.trace)
           /\ ~InTrace("linkModules", last'.trace)
           /\ heap'[last'.h] = heap[last'.h] ]_vars

C7_Witness ==
    /\ last.op = "link"
    /\ ~last.ub
    /\ last.ret = 0
    /\ ~verifyModule(heap[last.h])
    /\ verifyModule(heap[last.src])
    /\ ~InTrace("linkModules", last.trace)

\* C8 as stated: after every link(dst, src), src is as it was and is still a
\* live Module of its own; no Module but dst is changed.
C8_LinkLeavesSrc_Original ==
    [][ (CallOn("link") /\ refs[last'.src] = "live")
        => /\ heap'[last'.src] = heap[last'.src]
           /\ refs'[last'.src] = "live"
           /\ \A k \in Handles \ {last'.h} : heap'[k] = heap[k] ]_vars

\* C8 amended: after every link(dst, src) with src another Module than dst, src
\* is as it was and is still a live Module of its own; no Module but dst is
\* changed (dst may be, also when it is src).
C8_LinkLeavesDistinctSrc ==
    [][ (CallOn("link") /\ refs[last'.src] = "live")
        => /\ last'.src # last'.h =>
                 /\ heap'[last'.src] = heap[last'.src]
                 /\ to_string(heap'[last'.src]) = to_string(heap[last'.src])
           /\ refs'[last'.src] = "live"
           /\ heap'[last'.src] # Free
           /\ \A k \in Handles \ {last'.h} : heap'[k] = heap[k] ]_vars

C8_Witness ==
    /\ last.op = "link"
    /\ last.ret = 1
    /\ last.src # last.h
    /\ refs[last.src] = "live"
    /\ heap[last.src] # Free
    /\ \A j \in 1..Len(heap[last.src].funcs) :
          InTrace(heap[last.src].funcs[j], heap[last.h].funcs)
    /\ Len(heap[last.h].funcs) > Len(heap[last.src].funcs)

\* C9: once destroy(h) has run, no later call on h, a second destroy included,
\* reads or releases the freed ModuleRef.
C9_DestroyedHandleIsDefended ==
    (last.h \in Handles /\ refs[last.h] = "freed") => ~last.ub

\* C10: the first initialize creates the context and sets the registries up,
\* once; every later initialize changes nothing.
C10_InitializeOnce ==
    [][ last'.op = "initialize"
        => IF ctxCreated = 0
           THEN ctxCreated' = 1 /\ regSetups' = 1 /\ TheContext' # NULL
           ELSE UNCHANGED <<proc, TheContext, ctxCreated, regSetups, TargetRegistry,
                            shutdown, refs, heap>> ]_vars

C10_Witness ==
    /\ last.op = "initialize"
    /\ ctxCreated = 1
    /\ regSetups = 1
    /\ \E h \in Handles : refs[h] = "live"

ParseOps == {"parseText", "parseBinary"}

\* the inputs among Sources that are not IR text / bitcode at all
Malformed == {"garbage"}

\* C11: parseText and parseBinary, called with the context created, return a
\* handle of a new Module exactly when the input parses; on malformed input they
\* return null, allocate no handle, leave every Module as it was and the
\* process running, and parseBinary (only) prints the decoder's message.
C11_ParseReturnsHandleIffParsed ==
    [][ (last'.op \in ParseOps /\ TheContext # NULL)
        => IF last'.input \notin Malformed
           THEN /\ last'.ret = 1
                /\ last'.h \in Handles
                /\ refs[last'.h] = "unalloc"
                /\ refs' = [refs EXCEPT ![last'.h] = "live"]
                /\ heap' = [heap EXCEPT ![last'.h] = ParsedModule(last'.input)]
                /\ proc' = "running"
           ELSE /\ last'.ret = 0
                /\ last'.h \notin Handles
                /\ refs' = refs
                /\ heap' = heap
                /\ proc' = "running"
                /\ last'.diag = (last'.op = "parseBinary") ]_vars

C11_Witness ==
    /\ last.op = "parseBinary"
    /\ last.input \in Malformed
    /\ last.ret = 0
    /\ last.diag
    /\ proc = "running"
    /\ \E h \in Handles : refs[h] = "live"

\* the number of times event e occurs in trace t
Count(e, t) == Cardinality({i \in 1..Len(t) : t[i] = e})

\* the last call was optimize through a live handle and went past the
\* verification of its input, to the building and running of the passes
OptimizeRan == last.op = "optimize" /\ ~last.ub /\ InTrace("Passes.run", last.trace)

\* C12: optimize at optLevel 0 adds no standard link-time bundle, builds no
\* per-level bundle, creates and runs no function pass manager, and runs only
\* the target-library-info and target-transform-info passes and the verifier.
C12_LevelZeroRunsNoTransformation ==
    (OptimizeRan /\ last.optLevel = 0 /\ last.sizeLevel \in 0..2)
    => /\ ~InTrace("AddStandardLinkPasses", last.trace)
       /\ ~InTrace("AddOptimizationPasses", last.trace)
       /\ last.bundles = <<>>
       /\ ~InTrace("new FunctionPassManager", last.trace)
       /\ ~InTrace("FPasses.run", last.trace)
       /\ last.fpmRuns = <<>>
       /\ ~InTrace("pass:StandardLink", last.trace)
       /\ ~InTrace("pass:PerLevel", last.trace)

\* C13: optimize at optLevel L in 1..3 adds the standard link-time bundle once
\* and builds one per-level bundle, the one of level L, and none of another
\* level.
C13_OneBundleOfTheRequestedLevel ==
    (OptimizeRan /\ last.optLevel \in 1..3 /\ last.sizeLevel \in 0..2)
    => /\ Count("AddStandardLinkPasses", last.trace) = 1
       /\ Count("AddOptimizationPasses", last.trace) = 1
       /\ Len(last.bundles) = 1
       /\ \A i \in 1..Len(last.bundles) : last.bundles[i].OptLevel = last.optLevel

\* C14: in optimize(optLevel, sizeLevel) with optLevel in 1..3 and sizeLevel in
\* 0..2, the bundle of the requested level has loop vectorization, and SLP
\* vectorization, enabled only when optLevel > 1, the caller's sizeLevel < 2
\* and its disable switch is unset.
C14_VectorizeOnlyBelowSizeLevelTwo ==
    (OptimizeRan /\ last.optLevel \in 1..3 /\ last.sizeLevel \in 0..2)
    => \A i \in 1..Len(last.bundles) :
          last.bundles[i].OptLevel = last.optLevel
          => /\ last.bundles[i].LoopVectorize
                   => (last.optLevel > 1 /\ last.sizeLevel < 2 /\ ~DisableLoopVectorization)
             /\ last.bundles[i].SLPVectorize
                   => (last.optLevel > 1 /\ last.sizeLevel < 2 /\ ~DisableSLPVectorization)

\* C15: when a Module is optimized and then emitted, the (CPU, features) pair
\* emit hands to the function-attribute override is the pair optimize handed
\* to it.
C15_SameAttributeOverride ==
    [][ ( /\ last.op = "optimize" /\ last.attrs # <<>>
          /\ last'.op \in EmitOps /\ last'.attrs # <<>>
          /\ last'.h = last.h )
        => last'.attrs = last.attrs ]_vars

\* C16: every optimize call on a Module that passes the verification of its
\* input leaves the Module with the fixed target triple and with a concrete
\* data layout: the layout it had, or the target's when it had none.
C16_TripleAndLayoutNormalized ==
    [][ (CallOn("optimize") /\ ~verifyModule(heap[last'.h]))
        => /\ heap'[last'.h].triple = FixedTriple
           /\ heap'[last'.h].layout # ""
           /\ heap[last'.h].layout # "" => heap'[last'.h].layout = heap[last'.h].layout ]_vars

FPassesEvents == {"FPasses.doInitialization", "FPasses.run", "FPasses.doFinalization"}

\* C17: when optimize builds a per-level bundle, the function pass manager is
\* initialized once, then run once on each function of the Module in the
\* order of the Module's function list, then finalized once, and nothing of
\* it runs before the initialization or after the finalization.
C17_FunctionPassesOncePerFunction ==
    [][ (CallOn("optimize") /\ last'.bundles # <<>>)
        => /\ SelectSeq(last'.trace, LAMBDA e : e \in FPassesEvents)
                = <<"FPasses.doInitialization">>
                  \o [i \in 1..Len(heap[last'.h].funcs) |-> "FPasses.run"]
                  \o <<"FPasses.doFinalization">>
           /\ last'.fpmRuns = heap[last'.h].funcs ]_vars

C17_Witness ==
    /\ last.op = "optimize"
    /\ last.ret = 1
    /\ last.optLevel = 3
    /\ Len(last.bundles) = 1
    /\ Len(last.fpmRuns) = 2
    /\ Count("FPasses.run", last.trace) = 2

\* C18: for every optLevel and sizeLevel, inside or outside 0..3 and 0..2, the
\* range guards of optimize, emitAssembly and emitObject do not return early:
\* optimize goes on into Optimize (which starts by verifying the Module) and
\* the emit calls go on into CompileModule (which starts by the target lookup).
C18_RangeGuardsNeverReturn ==
    [][ (last'.op \in ({"optimize"} \cup EmitOps) /\ ~last'.ub /\ refs[last'.h] = "live")
        => IF last'.op = "optimize"
           THEN InTrace("verifyModule", last'.trace)
           ELSE InTrace("lookupTarget", last'.trace) ]_vars

C18_Witness ==
    /\ last.op = "optimize"
    /\ last.optLevel \notin 0..3
    /\ last.sizeLevel \notin 0..2
    /\ last.ret = 1
    /\ InTrace("Passes.run", last.trace)

\* the transformation passes Passes runs on the Module
ModulePasses == {"pass:StandardLink", "pass:PerLevel"}

\* C19: in every optimize call that returns, every step of the function pass
\* manager comes before Passes.run and so before every module-level pass, and
\* the verifier pass runs once, after every transformation pass, as the last
\* step of the call.
C19_FunctionPassesThenModulePassesThenVerifier ==
    (last.op = "optimize" /\ ~last.ub /\ last.ret = 1)
    => LET t == last.trace
       IN  /\ \A i, j \in 1..Len(t) :
                  (t[i] \in FPassesEvents /\ t[j] \in ModulePasses \cup {"Passes.run"})
                  => i < j
           /\ Count("pass:Verifier", t) = 1
           /\ \A i, j \in 1..Len(t) :
                  (t[i] \in ModulePasses \cup {"FPasses.run"} /\ t[j] = "pass:Verifier")
                  => i < j
           /\ t[Len(t)] = "pass:Verifier"

C19_Witness ==
    /\ last.op = "optimize"
    /\ last.ret = 1
    /\ last.optLevel = 2
    /\ InTrace("FPasses.run", last.trace)
    /\ InTrace("pass:StandardLink", last.trace)
    /\ InTrace("pass:PerLevel", last.trace)
    /\ last.trace[Len(last.trace)] = "pass:Verifier"

\* C20: finalize leaves the initialization guard set: it does not change
\* TheContext; an initialize after initialize and finalize does nothing (no
\* second context, no second registry setup); and once finalize has run the
\* runtime is never again in the state before llvm_shutdown.
C20_FinalizeKeepsGuard ==
    [][ /\ last'.op = "finalize"
              => (TheContext' = TheContext /\ ctxCreated' = ctxCreated /\ shutdown')
        /\ (shutdown /\ ctxCreated > 0 /\ last'.op = "initialize")
              => /\ UNCHANGED <<TheContext, ctxCreated, regSetups, TargetRegistry, shutdown>>
                 /\ last'.trace = <<>>
        /\ shutdown => shutdown'
        /\ ctxCreated' <= 1 ]_vars

C20_Witness ==
    /\ last.op = "initialize"
    /\ last.trace = <<>>
    /\ shutdown
    /\ TheContext # NULL
    /\ ctxCreated = 1
    /\ regSetups = 1

\* C21: the verify argument of optimize has no effect: on every Module the
\* host holds, at every optLevel in 0..3 and every sizeLevel, the call with
\* verify = 0 and the call with verify = 1 (the unassigned flags reading the
\* same, the passes behaving the same) build the same bundles, run the same
\* steps and verifications, leave the same Module and end the same way; and
\* an optimize call that returns returns 1 whatever verify was.
C21_VerifyHasNoEffect ==
    /\ \A h \in Handles :
          refs[h] = "live"
          => \A OptLevel \in 0..3, SizeLevel \in SizeLevelInputs :
                \A garbage \in GarbageAt(OptLevel), breaks \in BOOLEAN :
                   Optimize(heap[h], OptLevel, SizeLevel, 0, garbage, breaks)
                     = Optimize(heap[h], OptLevel, SizeLevel, 1, garbage, breaks)
    /\ (last.op = "optimize" /\ ~last.ub /\ proc = "running") => last.ret = 1
    /\ (last.op = "optimize" /\ ~last.ub /\ InTrace("setTargetTriple", last.trace))
          => InTrace("pass:Verifier", last.trace)

C21_Witness ==
    /\ last.op = "optimize"
    /\ last.verify = 0
    /\ last.optLevel = 2
    /\ last.ret = 1
    /\ InTrace("verifyModule", last.trace)
    /\ last.trace[Len(last.trace)] = "pass:Verifier"
    /\ refs[last.h] = "live"
====
